---- MODULE Spec2Model ----
(***************************************************************************)
(* gw-awards: the nightly fetch-and-enrich run (get-data.py, main) and the *)
(* flatten-and-aggregate pipeline of the page (app.py).                    *)
(*                                                                         *)
(* Python values are encoded as follows.                                   *)
(*   str    a sequence of one-character strings, "MW0/P" = <<"M","/","P">> *)
(*   None   the one-element sequence None (no str holds that element)      *)
(*   dict   a sequence of [k, v] entries with distinct keys, in insertion  *)
(*          order (Python dicts iterate in insertion order)                *)
(*   list   a sequence                                                     *)
(***************************************************************************)
EXTENDS Integers, Sequences, FiniteSets, TLC

VARIABLES
    \* ---- get-data.py, main() ----
    pc,               \* position of main()
    roll,             \* the roll the remote answered with (history)
    activator_lookup, \* dict UserID -> Callsign
    regions,          \* list returned by fetch_regions()
    ri,               \* index of the region the outer loop is at
    region_data,      \* detail of the region in flight
    region_entry,     \* the region entry under construction
    si,               \* index of the summit the inner loop is at
    output,           \* the snapshot under construction
    file,             \* gw_sota_data.json
    prior,            \* the file as it was when the run started (history)
    responses,        \* dict summitCode -> what fetch_activations did (history)
    abortCause,       \* why main() ended without reaching "Done." (history)
    \* ---- app.py, one script run ----
    apc,              \* position of the script
    data,             \* load_data()
    df,               \* build_activation_dataframe(data)
    selected_year,
    summary,
    historical,
    winners,
    yearly_totals

fetchVars == <<pc, roll, activator_lookup, regions, ri, region_data, region_entry,
               si, output, file, prior, responses, abortCause>>
appVars == <<apc, data, df, selected_year, summary, historical, winners, yearly_totals>>
vars == <<fetchVars, appVars>>

-----------------------------------------------------------------------------
(* Python values *)

None == <<"None">>

NoneId == -1

Truthy(s) == s # None /\ s # <<>>

Range(s) == {s[i] : i \in 1..Len(s)}

SeqsUpTo(S, n) == UNION {[1..k -> S] : k \in 0..n}

RECURSIVE SumSeq(_)
SumSeq(s) == IF s = <<>> THEN 0 ELSE Head(s) + SumSeq(Tail(s))

RECURSIVE Concat(_)
Concat(ss) == IF ss = <<>> THEN <<>> ELSE Head(ss) \o Concat(Tail(ss))

Min(S) == CHOOSE x \in S : \A y \in S : x <= y
Max(S) == CHOOSE x \in S : \A y \in S : x >= y

\* dict
DictKeys(d) == [i \in 1..Len(d) |-> d[i].k]
DictValues(d) == [i \in 1..Len(d) |-> d[i].v]
DictHas(d, key) == \E i \in 1..Len(d) : d[i].k = key
DictIndex(d, key) == CHOOSE i \in 1..Len(d) : d[i].k = key
DictItem(d, key) == d[DictIndex(d, key)].v
\* d.get(key)
DictGet(d, key) == IF DictHas(d, key) THEN DictItem(d, key) ELSE None
\* d[key] = value: an existing key keeps its position, a new key goes last
DictSet(d, key, value) ==
    IF DictHas(d, key)
    THEN [d EXCEPT ![DictIndex(d, key)] = [k |-> key, v |-> value]]
    ELSE Append(d, [k |-> key, v |-> value])

\* s.split("/")[0]
RECURSIVE SplitFirst(_)
SplitFirst(s) ==
    IF s = <<>> THEN <<>>
    ELSE IF Head(s) = "/" THEN <<>>
    ELSE <<Head(s)>> \o SplitFirst(Tail(s))

-----------------------------------------------------------------------------
(* Bounds and the remote source *)

MaxRoll == 2        \* entries in the activator roll
MaxFetched == 2     \* activations the remote returns in one run, all summits together

ASSOCIATION_CODE == <<"G", "W">>

\* what the roll endpoint can hold: entries the guard of line 38 keeps and drops
RollEntries ==
    { [UserID |-> 1, Callsign |-> <<"M">>],
      [UserID |-> 1, Callsign |-> <<"N">>],
      [UserID |-> 1, Callsign |-> <<>>],
      [UserID |-> NoneId, Callsign |-> <<"M">>] }
Rolls == SeqsUpTo(RollEntries, MaxRoll)

OwnCallsigns == { None, <<>>, <<"M", "/", "P">>, <<"/", "P">> }
Date2023 == <<2, 0, 2, 3, 0, 5, 0, 1>>
RawActivations ==
    { [userId |-> 1, ownCallsign |-> o, activationDate |-> Date2023] : o \in OwnCallsigns }

\* the association: region 1 owns summit <<1,1>>, region 2 owns <<2,1>> and <<2,2>>
RemoteRegions == << [regionCode |-> 1], [regionCode |-> 2] >>
SummitOf(r, s) ==
    [summitCode |-> <<r, s>>, name |-> IF s = 1 THEN <<"A">> ELSE <<"B">>, points |-> 2 * s,
     latitude |-> 52 + r, longitude |-> s - 4]
RemoteRegionDetail(r) ==
    [region |-> [regionCode |-> r, summits |-> r],
     summits |-> [s \in 1..r |-> SummitOf(r, s)]]
AllSummitCodes ==
    UNION {{<<r, s>> : s \in 1..Len(RemoteRegionDetail(r).summits)} :
              r \in {RemoteRegions[i].regionCode : i \in 1..Len(RemoteRegions)}}

\* what a call of fetch_activations can do: raise, answer with a list of
\* activations, or answer with JSON that is no list of activation objects
ActivationResponses(room) ==
    {[status |-> "raised", body |-> <<>>], [status |-> "malformed", body |-> <<>>]}
    \cup {[status |-> "ok", body |-> b] : b \in SeqsUpTo(RawActivations, room)}

Fetched(resp) == SumSeq([i \in 1..Len(resp) |-> Len(resp[i].v.body)])

-----------------------------------------------------------------------------
(* get-data.py *)

\* fetch_activator_roll, lines 34-39
RECURSIVE BuildLookupFrom(_, _)
BuildLookupFrom(lookup, entries) ==
    IF entries = <<>> THEN lookup
    ELSE LET entry == Head(entries)
             user_id == entry.UserID
             callsign == entry.Callsign
         IN BuildLookupFrom(
                IF user_id # NoneId /\ Truthy(callsign)
                THEN DictSet(lookup, user_id, callsign)
                ELSE lookup,
                Tail(entries))

BuildLookup(data_) == BuildLookupFrom(<<>>, data_)

\* the fallback consulted before the roll
Resolve_FallbackFirst(lookup, act) ==
    IF Truthy(act.ownCallsign)
    THEN SplitFirst(act.ownCallsign)
    ELSE DictGet(lookup, act.userId)

\* lines 101-107: the canonical callsign of one activation
Resolve(lookup, act) ==
    LET canonical_callsign == DictGet(lookup, act.userId)
    IN IF ~Truthy(canonical_callsign) /\ Truthy(act.ownCallsign)
       THEN SplitFirst(act.ownCallsign)
       ELSE canonical_callsign

\* lines 109-112
Enrich(lookup, act) ==
    [userId |-> act.userId, ownCallsign |-> act.ownCallsign,
     activationDate |-> act.activationDate, Callsign |-> Resolve(lookup, act)]

\* lines 99-114
EnrichAll(lookup, activations) ==
    [i \in 1..Len(activations) |-> Enrich(lookup, activations[i])]

\* the fields of an enriched activation that came from the remote source
Raw(e) == [userId |-> e.userId, ownCallsign |-> e.ownCallsign,
           activationDate |-> e.activationDate]
RawAll(acts) == [i \in 1..Len(acts) |-> Raw(acts[i])]

\* the summit entries of a snapshot, region by region
SummitEntries(snapshot) ==
    Concat([i \in 1..Len(snapshot.regions) |-> DictValues(snapshot.regions[i].v.summits)])

NoRegion == [regionCode |-> 0, summits |-> 0]
NoRegionData == [region |-> NoRegion, summits |-> <<>>]
NoRegionEntry == [region |-> NoRegion, summits |-> <<>>]
NoOutput == [generated_at |-> None, association |-> None, regions |-> <<>>]
NoFile == [exists |-> FALSE, content |-> <<>>]
PriorSnapshot == [generated_at |-> <<"0">>, association |-> ASSOCIATION_CODE, regions |-> <<>>]

Init ==
    /\ pc = "roll"
    /\ roll = <<>>
    /\ activator_lookup = <<>>
    /\ regions = <<>>
    /\ ri = 0
    /\ region_data = NoRegionData
    /\ region_entry = NoRegionEntry
    /\ si = 0
    /\ output = NoOutput
    /\ file \in {NoFile, [exists |-> TRUE, content |-> <<PriorSnapshot>>]}
    /\ prior = file
    /\ responses = <<>>
    /\ abortCause = None
    /\ apc = "idle"
    /\ data = NoOutput
    /\ df = <<>>
    /\ selected_year = 0
    /\ summary = <<>>
    /\ historical = <<>>
    /\ winners = <<>>
    /\ yearly_totals = <<>>

Abort(cause) ==
    /\ pc' = "aborted"
    /\ abortCause' = cause

\* line 66
FetchActivatorRoll ==
    /\ pc = "roll"
    /\ \E r \in Rolls :
          /\ roll' = r
          /\ activator_lookup' = BuildLookup(r)
    /\ pc' = "regions"
    /\ UNCHANGED <<regions, ri, region_data, region_entry, si, output, file, prior,
                   responses, abortCause, appVars>>

\* line 66, get_json raises
FetchActivatorRollFails ==
    /\ pc = "roll"
    /\ Abort(<<"roll">>)
    /\ UNCHANGED <<roll, activator_lookup, regions, ri, region_data, region_entry, si,
                   output, file, prior, responses, appVars>>

\* the output file opened before the loops instead of after them
FetchRegions_OpenEarly ==
    /\ pc = "regions"
    /\ regions' = RemoteRegions
    /\ output' = [generated_at |-> <<"1">>, association |-> ASSOCIATION_CODE,
                  regions |-> <<>>]
    /\ ri' = 1
    /\ pc' = "region"
    /\ file' = [exists |-> TRUE, content |-> <<>>]
    /\ UNCHANGED <<roll, activator_lookup, region_data, region_entry, si, prior,
                   responses, abortCause, appVars>>

\* lines 69-75
FetchRegions ==
    /\ pc = "regions"
    /\ regions' = RemoteRegions
    /\ output' = [generated_at |-> <<"1">>, association |-> ASSOCIATION_CODE,
                  regions |-> <<>>]
    /\ ri' = 1
    /\ pc' = "region"
    /\ UNCHANGED <<roll, activator_lookup, region_data, region_entry, si, file, prior,
                   responses, abortCause, appVars>>

\* line 69, get_json raises
FetchRegionsFails ==
    /\ pc = "regions"
    /\ Abort(<<"regions">>)
    /\ UNCHANGED <<roll, activator_lookup, regions, ri, region_data, region_entry, si,
                   output, file, prior, responses, appVars>>

\* lines 77-86
FetchRegionDetails ==
    /\ pc = "region"
    /\ ri <= Len(regions)
    /\ LET region_code == regions[ri].regionCode
       IN /\ region_data' = RemoteRegionDetail(region_code)
          /\ region_entry' = [region |-> region_data'.region, summits |-> <<>>]
    /\ si' = 1
    /\ pc' = "summit"
    /\ UNCHANGED <<roll, activator_lookup, regions, ri, output, file, prior,
                   responses, abortCause, appVars>>

\* line 81, get_json raises
FetchRegionDetailsFails ==
    /\ pc = "region"
    /\ ri <= Len(regions)
    /\ Abort(<<"region_detail">>)
    /\ UNCHANGED <<roll, activator_lookup, regions, ri, region_data, region_entry, si,
                   output, file, prior, responses, appVars>>

\* a summit without activations gets no entry
StoreSummit_SkipEmpty(entry, summit, enriched_activations) ==
    IF enriched_activations = <<>> THEN entry
    ELSE [entry EXCEPT !.summits =
             DictSet(@, summit.summitCode,
                     [summit |-> summit, activations |-> enriched_activations])]

\* lines 116-119
StoreSummit(entry, summit, enriched_activations) ==
    [entry EXCEPT !.summits =
        DictSet(@, summit.summitCode,
                [summit |-> summit, activations |-> enriched_activations])]

\* lines 88-121, one pass of the summit loop
ProcessSummit ==
    /\ pc = "summit"
    /\ si <= Len(region_data.summits)
    /\ LET summit == region_data.summits[si]
       IN \E resp \in ActivationResponses(MaxFetched - Fetched(responses)) :
            /\ resp.status # "malformed"
            /\ responses' = DictSet(responses, summit.summitCode, resp)
            /\ LET activations == IF resp.status = "ok" THEN resp.body ELSE <<>>
               IN region_entry' =
                      StoreSummit(region_entry, summit,
                                  EnrichAll(activator_lookup, activations))
    /\ si' = si + 1
    /\ UNCHANGED <<pc, roll, activator_lookup, regions, ri, region_data, output, file,
                   prior, abortCause, appVars>>

\* lines 100-101: the answer is no list of objects, act.get raises outside the try
ProcessSummitMalformed ==
    /\ pc = "summit"
    /\ si <= Len(region_data.summits)
    /\ responses' = DictSet(responses, region_data.summits[si].summitCode,
                            [status |-> "malformed", body |-> <<>>])
    /\ Abort(<<"enrich">>)
    /\ UNCHANGED <<roll, activator_lookup, regions, ri, region_data, region_entry, si,
                   output, file, prior, appVars>>

\* the region stored without the summits collected for it
EndRegion_DropSummits ==
    /\ pc = "summit"
    /\ si > Len(region_data.summits)
    /\ output' = [output EXCEPT !.regions =
                      DictSet(@, regions[ri].regionCode,
                              [region |-> region_entry.region, summits |-> <<>>])]
    /\ ri' = ri + 1
    /\ pc' = "region"
    /\ UNCHANGED <<roll, activator_lookup, regions, region_data, region_entry, si, file,
                   prior, responses, abortCause, appVars>>

\* line 123, after the last summit of the region
EndRegion ==
    /\ pc = "summit"
    /\ si > Len(region_data.summits)
    /\ output' = [output EXCEPT !.regions =
                      DictSet(@, regions[ri].regionCode, region_entry)]
    /\ ri' = ri + 1
    /\ pc' = "region"
    /\ UNCHANGED <<roll, activator_lookup, regions, region_data, region_entry, si, file,
                   prior, responses, abortCause, appVars>>

\* line 126: open("w") creates or truncates the file
OpenOutputFile ==
    /\ pc = "region"
    /\ ri > Len(regions)
    /\ file' = [exists |-> TRUE, content |-> <<>>]
    /\ pc' = "dump"
    /\ UNCHANGED <<roll, activator_lookup, regions, ri, region_data, region_entry, si,
                   output, prior, responses, abortCause, appVars>>

\* lines 127-129
DumpOutput ==
    /\ pc = "dump"
    /\ file' = [exists |-> TRUE, content |-> <<output>>]
    /\ pc' = "done"
    /\ UNCHANGED <<roll, activator_lookup, regions, ri, region_data, region_entry, si,
                   output, prior, responses, abortCause, appVars>>

\* KeyboardInterrupt at any point of main()
Cancel ==
    /\ pc \notin {"done", "aborted"}
    /\ Abort(<<"cancel">>)
    /\ UNCHANGED <<roll, activator_lookup, regions, ri, region_data, region_entry, si,
                   output, file, prior, responses, appVars>>

Next ==
    \/ FetchActivatorRoll
    \/ FetchActivatorRollFails
    \/ FetchRegions
    \/ FetchRegionsFails
    \/ FetchRegionDetails
    \/ FetchRegionDetailsFails
    \/ ProcessSummit
    \/ ProcessSummitMalformed
    \/ EndRegion
    \/ OpenOutputFile
    \/ DumpOutput
    \/ Cancel

Spec == Init /\ [][Next]_vars

-----------------------------------------------------------------------------
(* app.py: pandas *)

MaxRecords == 3     \* activations in the snapshot the page loads, all summits together

\* characters in ASCII order
Alphabet == <<"/", "M", "N", "P">>
Code(c) == CHOOSE i \in 1..Len(Alphabet) : Alphabet[i] = c

\* a < b for str
RECURSIVE StrLess(_, _)
StrLess(a, b) ==
    IF b = <<>> THEN FALSE
    ELSE IF a = <<>> THEN TRUE
    ELSE IF Head(a) = Head(b) THEN StrLess(Tail(a), Tail(b))
    ELSE Code(Head(a)) < Code(Head(b))

\* the columns that hold str or None; the other columns hold int
StrColumns == {"Callsign"}

\* df[df[column] == value]
FilterEq(rows, column, value) ==
    LET RECURSIVE Take(_)
        Take(i) == IF i > Len(rows) THEN <<>>
                   ELSE (IF rows[i][column] = value THEN <<rows[i]>> ELSE <<>>) \o Take(i + 1)
    IN Take(1)

\* the values of a row in the columns cols
KeyOf(row, cols) == [i \in 1..Len(cols) |-> row[cols[i]]]

\* a key with a null in it
IsNa(row, cols) == \E i \in 1..Len(cols) : cols[i] \in StrColumns /\ row[cols[i]] = None

\* key a sorts before key b
KeyBefore(cols, a, b) ==
    \E i \in 1..Len(cols) :
        /\ \A j \in 1..(i - 1) : a[j] = b[j]
        /\ IF cols[i] \in StrColumns THEN StrLess(a[i], b[i]) ELSE a[i] < b[i]

\* drop_duplicates(subset=...), keep="first"
DropDuplicates(rows, subset) ==
    LET kept == {i \in 1..Len(rows) :
                    \A j \in 1..(i - 1) : KeyOf(rows[j], subset) # KeyOf(rows[i], subset)}
        RECURSIVE Take(_)
        Take(i) == IF i > Len(rows) THEN <<>>
                   ELSE (IF i \in kept THEN <<rows[i]>> ELSE <<>>) \o Take(i + 1)
    IN Take(1)

\* groupby(by): the keys of the groups in ascending order (sort=True); a row
\* with a null in its key is in no group (dropna=True)
GroupKeys(rows, by) ==
    LET RECURSIVE Sort(_)
        Sort(T) ==
            IF T = {} THEN <<>>
            ELSE LET first == CHOOSE x \in T : \A y \in T \ {x} : KeyBefore(by, x, y)
                 IN <<first>> \o Sort(T \ {first})
    IN Sort({KeyOf(rows[i], by) : i \in {j \in 1..Len(rows) : ~IsNa(rows[j], by)}})

\* .agg(count) and .size() of the group of a key
GroupCount(rows, by, key) == Cardinality({i \in 1..Len(rows) : KeyOf(rows[i], by) = key})

\* ascending=False left out
SortValues_IgnoreOrder(rows, column, ascending) ==
    LET n == Len(rows)
        perms == {f \in [1..n -> 1..n] : \A i, j \in 1..n : i # j => f[i] # f[j]}
    IN {[i \in 1..n |-> rows[f[i]]] : f \in
           {g \in perms : \A i, j \in 1..n :
                              i < j => rows[g[i]][column] <= rows[g[j]][column]}}

\* sort_values(column, ascending=...) on one int column, with the default
\* kind="quicksort", which is not stable: every order of the rows that is
\* sorted in the column
SortValues(rows, column, ascending) ==
    LET n == Len(rows)
        perms == {f \in [1..n -> 1..n] : \A i, j \in 1..n : i # j => f[i] # f[j]}
        InOrder(x, y) == IF ascending THEN x <= y ELSE x >= y
    IN {[i \in 1..n |-> rows[f[i]]] : f \in
           {g \in perms : \A i, j \in 1..n :
                              i < j => InOrder(rows[g[i]][column], rows[g[j]][column])}}

\* sort_values([columns], ascending=[...]) on int columns: a lexsort, stable:
\* of the rows no other row precedes, the first one goes first
SortValuesBy(rows, by, ascending) ==
    LET Before(a, b) ==
            \E i \in 1..Len(by) :
                /\ \A j \in 1..(i - 1) : a[by[j]] = b[by[j]]
                /\ IF ascending[i] THEN a[by[i]] < b[by[i]] ELSE a[by[i]] > b[by[i]]
        RECURSIVE Sort(_)
        Sort(rs) ==
            IF rs = <<>> THEN <<>>
            ELSE LET i == Min({k \in 1..Len(rs) : \A j \in 1..Len(rs) : ~Before(rs[j], rs[k])})
                 IN <<rs[i]>> \o
                    Sort([k \in 1..(Len(rs) - 1) |-> IF k < i THEN rs[k] ELSE rs[k + 1]])
    IN Sort(rows)

-----------------------------------------------------------------------------
(* app.py: the script *)

\* int(act["activationDate"][:4]); a date is its digits, YYYYMMDD
Year(activationDate) ==
    1000 * activationDate[1] + 100 * activationDate[2]
        + 10 * activationDate[3] + activationDate[4]

\* the self-reported callsign read in place of the resolved one
FlatRecord_OwnCallsign(summit, act) ==
    [userId |-> act.userId, Callsign |-> act.ownCallsign,
     activationDate |-> act.activationDate, year |-> Year(act.activationDate),
     summitCode |-> summit.summitCode, summitName |-> summit.name,
     points |-> summit.points, latitude |-> summit.latitude,
     longitude |-> summit.longitude]

\* lines 35-45
FlatRecord(summit, act) ==
    [userId |-> act.userId, Callsign |-> act.Callsign,
     activationDate |-> act.activationDate, year |-> Year(act.activationDate),
     summitCode |-> summit.summitCode, summitName |-> summit.name,
     points |-> summit.points, latitude |-> summit.latitude,
     longitude |-> summit.longitude]

\* lines 32-45, one summit entry
SummitRows(summit_entry) ==
    [i \in 1..Len(summit_entry.activations) |->
        FlatRecord(summit_entry.summit, summit_entry.activations[i])]

\* lines 31-45, one region
RECURSIVE RowsOfSummits(_)
RowsOfSummits(entries) ==
    IF entries = <<>> THEN <<>>
    ELSE SummitRows(Head(entries)) \o RowsOfSummits(Tail(entries))

RECURSIVE RowsOfRegions(_)
RowsOfRegions(regs) ==
    IF regs = <<>> THEN <<>>
    ELSE RowsOfSummits(DictValues(Head(regs).summits)) \o RowsOfRegions(Tail(regs))

\* lines 24-47
build_activation_dataframe(d) == RowsOfRegions(DictValues(d.regions))

\* line 65, as a set
available_years(rows) == {rows[i].year : i \in 1..Len(rows)}

\* lines 80-86: the summary before its sort
SummaryGroups(df_year) ==
    LET deduped == DropDuplicates(df_year, <<"userId", "summitCode">>)
        by == <<"userId", "Callsign">>
        keys == GroupKeys(deduped, by)
    IN [i \in 1..Len(keys) |->
           [userId |-> keys[i][1], Callsign |-> keys[i][2],
            summits |-> GroupCount(deduped, by, keys[i])]]

\* lines 200-208
Historical(rows) ==
    LET deduped == DropDuplicates(rows, <<"userId", "summitCode", "year">>)
        by == <<"year", "userId", "Callsign">>
        keys == GroupKeys(deduped, by)
    IN [i \in 1..Len(keys) |->
           [year |-> keys[i][1], userId |-> keys[i][2], Callsign |-> keys[i][3],
            summits |-> GroupCount(deduped, by, keys[i])]]

\* lines 210-214: .groupby("year").head(1) keeps the first row of each year
WinnersHead(hist) ==
    DropDuplicates(SortValuesBy(hist, <<"year", "summits">>, <<TRUE, FALSE>>), <<"year">>)

\* lines 245-251, before the sort of line 251
YearlyTotalGroups(rows) ==
    LET deduped == DropDuplicates(rows, <<"userId", "summitCode", "year">>)
        keys == GroupKeys(deduped, <<"year">>)
    IN [i \in 1..Len(keys) |->
           [year |-> keys[i][1], total |-> GroupCount(deduped, <<"year">>, keys[i])]]

\* the activations of the snapshots the page loads: what get-data.py stores,
\* with the roll empty, for participant 1 (reports no callsign, or "M") and
\* participant 2 (reports "M/P" or "N/P"), in two years
Users == {1, 2}
Date2024 == <<2, 0, 2, 4, 0, 6, 0, 1>>
PageReports ==
    { <<1, None>>, <<1, <<"M">> >>, <<2, <<"M", "/", "P">> >>, <<2, <<"N", "/", "P">> >> }
PageActivations ==
    { Enrich(<<>>, [userId |-> r[1], ownCallsign |-> r[2], activationDate |-> d]) :
        r \in PageReports, d \in {Date2023, Date2024} }

\* the summits of the association in the order the fetch run visits them
RemoteSummits ==
    Concat([i \in 1..Len(RemoteRegions) |->
               RemoteRegionDetail(RemoteRegions[i].regionCode).summits])

\* the snapshot get-data.py writes when the activations `acts` come back for
\* the summits `at` (at[i] is the position in RemoteSummits of the summit
\* acts[i] belongs to)
SnapshotOf(acts, at) ==
    LET ActsOf(summit) ==
            LET Here(i) == RemoteSummits[at[i]].summitCode = summit.summitCode
                RECURSIVE Take(_)
                Take(i) == IF i > Len(acts) THEN <<>>
                           ELSE (IF Here(i) THEN <<acts[i]>> ELSE <<>>) \o Take(i + 1)
            IN Take(1)
        SummitDict(detail) ==
            [j \in 1..Len(detail.summits) |->
                [k |-> detail.summits[j].summitCode,
                 v |-> [summit |-> detail.summits[j],
                        activations |-> ActsOf(detail.summits[j])]]]
    IN [generated_at |-> <<"1">>, association |-> ASSOCIATION_CODE,
        regions |-> [i \in 1..Len(RemoteRegions) |->
                        LET detail == RemoteRegionDetail(RemoteRegions[i].regionCode)
                        IN [k |-> RemoteRegions[i].regionCode,
                            v |-> [region |-> detail.region,
                                   summits |-> SummitDict(detail)]]]]

\* the state get-data.py leaves behind: the run is done and the file holds
\* its snapshot
InitApp ==
    /\ pc = "done"
    /\ roll = <<>>
    /\ activator_lookup = BuildLookup(roll)
    /\ regions = RemoteRegions
    /\ ri = Len(regions) + 1
    /\ \E n \in 0..MaxRecords :
          \E acts \in [1..n -> PageActivations] :
             \E at \in [1..n -> 1..Len(RemoteSummits)] :
                /\ \A i, j \in 1..n : i <= j => at[i] <= at[j]
                /\ output = SnapshotOf(acts, at)
    /\ region_data = RemoteRegionDetail(regions[Len(regions)].regionCode)
    /\ region_entry = output.regions[Len(output.regions)].v
    /\ si = Len(region_data.summits) + 1
    /\ file = [exists |-> TRUE, content |-> <<output>>]
    /\ prior = NoFile
    /\ responses = [i \in 1..Len(SummitEntries(output)) |->
                        [k |-> SummitEntries(output)[i].summit.summitCode,
                         v |-> [status |-> "ok",
                                body |-> RawAll(SummitEntries(output)[i].activations)]]]
    /\ abortCause = None
    /\ apc = "load"
    /\ data = NoOutput
    /\ df = <<>>
    /\ selected_year = 0
    /\ summary = <<>>
    /\ historical = <<>>
    /\ winners = <<>>
    /\ yearly_totals = <<>>

\* lines 60-61
LoadAndFlatten ==
    /\ apc = "load"
    /\ file.exists /\ file.content # <<>>
    /\ data' = file.content[1]
    /\ df' = build_activation_dataframe(data')
    /\ apc' = "select"
    /\ UNCHANGED <<fetchVars, selected_year, summary, historical, winners, yearly_totals>>

\* line 65: an empty frame has no "year" column, df["year"] raises
NoYearColumn ==
    /\ apc = "select"
    /\ df = <<>>
    /\ apc' = "failed"
    /\ UNCHANGED <<fetchVars, data, df, selected_year, summary, historical, winners,
                   yearly_totals>>

\* lines 65-75: the year the visitor has selected
SelectYear ==
    /\ apc = "select"
    /\ df # <<>>
    /\ selected_year' \in available_years(df)
    /\ apc' = "summary"
    /\ UNCHANGED <<fetchVars, data, df, summary, historical, winners, yearly_totals>>

\* line 77
DfYear == FilterEq(df, "year", selected_year)

\* lines 77-88
ComputeSummary ==
    /\ apc = "summary"
    /\ summary' \in SortValues(SummaryGroups(DfYear), "summits", FALSE)
    /\ apc' = "historical"
    /\ UNCHANGED <<fetchVars, data, df, selected_year, historical, winners, yearly_totals>>

\* lines 200-216
ComputeWinners ==
    /\ apc = "historical"
    /\ historical' = Historical(df)
    /\ winners' \in SortValues(WinnersHead(historical'), "year", FALSE)
    /\ apc' = "totals"
    /\ UNCHANGED <<fetchVars, data, df, selected_year, summary, yearly_totals>>

\* lines 245-265
ComputeYearlyTotals ==
    /\ apc = "totals"
    /\ yearly_totals' \in SortValues(YearlyTotalGroups(df), "year", TRUE)
    /\ apc' = "rendered"
    /\ UNCHANGED <<fetchVars, data, df, selected_year, summary, historical, winners>>

\* a widget event: streamlit runs the script again from the top
Rerun ==
    /\ apc = "rendered"
    /\ apc' = "load"
    /\ data' = NoOutput
    /\ df' = <<>>
    /\ selected_year' = 0
    /\ summary' = <<>>
    /\ historical' = <<>>
    /\ winners' = <<>>
    /\ yearly_totals' = <<>>
    /\ UNCHANGED fetchVars

NextApp ==
    \/ LoadAndFlatten
    \/ NoYearColumn
    \/ SelectYear
    \/ ComputeSummary
    \/ ComputeWinners
    \/ ComputeYearlyTotals
    \/ Rerun

SpecApp == InitApp /\ [][NextApp]_vars

-----------------------------------------------------------------------------
(* Properties of the fetch run *)

\* the summit entries of the region entry in flight
InFlightEntries == DictValues(region_entry.summits)
AttachedEntries == Range(SummitEntries(output)) \cup Range(InFlightEntries)
AttachedActivations == UNION {Range(e.activations) : e \in AttachedEntries}

\* what summit code c must hold, given what its fetch did
ExpectedRaw(c) ==
    IF DictItem(responses, c).status = "ok" THEN DictItem(responses, c).body ELSE <<>>

EntryFor(entries, c) == CHOOSE e \in entries : e.summit.summitCode = c
HasEntry(entries, c) == \E e \in entries : e.summit.summitCode = c

FatalCauses == {<<"roll">>, <<"regions">>, <<"region_detail">>}

\* the run when only fetch_activations calls may fail: the hypothesis of C4
NextSummitFailuresOnly ==
    \/ FetchActivatorRoll
    \/ FetchRegions
    \/ FetchRegionDetails
    \/ ProcessSummit
    \/ EndRegion
    \/ OpenOutputFile
    \/ DumpOutput

\* main() is one sequential process: a step that can be taken is taken
SpecSummitFailuresOnly ==
    Init /\ [][NextSummitFailuresOnly]_vars /\ WF_vars(NextSummitFailuresOnly)

C4_Contained ==
    /\ pc # "aborted"
    /\ \A i \in 1..Len(responses) :
          responses[i].v.status = "raised" =>
              /\ HasEntry(AttachedEntries, responses[i].k)
              /\ EntryFor(AttachedEntries, responses[i].k).activations = <<>>
    /\ pc = "done" =>
          /\ file = [exists |-> TRUE, content |-> <<output>>]
          /\ LET written == Range(SummitEntries(file.content[1]))
             IN /\ {e.summit.summitCode : e \in written} = AllSummitCodes
                /\ Len(SummitEntries(file.content[1])) = Cardinality(AllSummitCodes)
                /\ \A c \in AllSummitCodes :
                      /\ RawAll(EntryFor(written, c).activations) = ExpectedRaw(c)
                      /\ \A a \in Range(EntryFor(written, c).activations) :
                            "Callsign" \in DOMAIN a

\* C4: when only fetch_activations calls fail (any subset of the summits), a
\* failed summit gets an entry with an empty activation list, the run never
\* aborts, it reaches the write step and ends, and the snapshot it wrote
\* holds every summit: a failed one empty, every other one with exactly the
\* activations fetched for it, each carrying a Callsign.
C4_SummitFailureContained == []C4_Contained /\ <>(pc = "done")

C4_Witness ==
    /\ pc = "done"
    /\ DictItem(responses, <<1, 1>>).status = "raised"
    /\ DictItem(responses, <<2, 1>>).status = "ok"
    /\ Len(DictItem(responses, <<2, 1>>).body) = 2
    /\ DictItem(responses, <<2, 2>>).status = "raised"

\* C5: when the roll fetch, the region-list fetch or a region-detail fetch
\* fails the file is as it was before the run; the file differs from what it
\* was only once every region and every summit has been processed.
C5_FatalFailureWritesNothing ==
    /\ (pc = "aborted" /\ abortCause \in FatalCauses) => file = prior
    /\ file # prior =>
          /\ regions = RemoteRegions
          /\ ri > Len(regions)
          /\ DictKeys(output.regions) = [i \in 1..Len(regions) |-> regions[i].regionCode]
          /\ {responses[i].k : i \in 1..Len(responses)} = AllSummitCodes

C5_Witness ==
    /\ pc = "aborted"
    /\ abortCause = <<"region_detail">>
    /\ ri = 2
    /\ Len(output.regions) = 1
    /\ prior.exists
    /\ file = prior

\* the part of s before its first "/"
BeforeSlash(s) ==
    LET at == {i \in 1..Len(s) : s[i] = "/"}
    IN IF at = {} THEN s ELSE SubSeq(s, 1, Min(at) - 1)

HasOwnCallsign(a) == a.ownCallsign # None /\ a.ownCallsign # <<>>

\* resolution as the claim words it
ResolvedAsClaimed(a) ==
    a.Callsign =
        IF DictHas(activator_lookup, a.userId) THEN DictItem(activator_lookup, a.userId)
        ELSE IF HasOwnCallsign(a) THEN BeforeSlash(a.ownCallsign)
        ELSE None

RollUserIds == {roll[i].UserID : i \in 1..Len(roll)} \ {NoneId}
LastRollEntry(u) == roll[Max({i \in 1..Len(roll) : roll[i].UserID = u})]
NamedRollUserIds ==
    {roll[i].UserID : i \in {j \in 1..Len(roll) : roll[j].Callsign \notin {None, <<>>}}}
    \ {NoneId}
LastNamedRollEntry(u) ==
    roll[Max({i \in 1..Len(roll) :
                 roll[i].UserID = u /\ roll[i].Callsign \notin {None, <<>>}})]

\* C6 as stated: every attached activation is resolved roll first, then
\* ownCallsign cut before its first "/", then null; and the identity map holds,
\* for each userId in the roll, the callsign of the last roll entry for it.
C6_Original ==
    pc # "roll" =>
        /\ \A a \in AttachedActivations : ResolvedAsClaimed(a)
        /\ \A u \in RollUserIds :
              /\ DictHas(activator_lookup, u)
              /\ DictItem(activator_lookup, u) = LastRollEntry(u).Callsign

\* C6 amended: resolution is as stated (the fallback applies when ownCallsign
\* is present and not empty); the identity map holds exactly the userIds that
\* have a roll entry with a non-empty callsign, each with the callsign of the
\* last such entry: entries with an empty callsign or no UserID are skipped.
C6_Amended ==
    pc # "roll" =>
        /\ \A a \in AttachedActivations : ResolvedAsClaimed(a)
        /\ {activator_lookup[i].k : i \in 1..Len(activator_lookup)} = NamedRollUserIds
        /\ \A u \in NamedRollUserIds :
              DictItem(activator_lookup, u) = LastNamedRollEntry(u).Callsign

C6_Witness ==
    /\ pc = "done"
    /\ roll = <<[UserID |-> 1, Callsign |-> <<"M">>], [UserID |-> 1, Callsign |-> <<"N">>]>>
    /\ \E a \in AttachedActivations :
          a.userId = 1 /\ a.ownCallsign = <<"M", "/", "P">> /\ a.Callsign = <<"N">>

\* C7 as stated: no attached activation has the empty string as Callsign; the
\* Callsign is a non-empty string whenever the userId has a roll entry or the
\* activation has a non-empty ownCallsign, and null only when both are absent.
C7_Original ==
    \A a \in AttachedActivations :
        /\ a.Callsign # <<>>
        /\ (a.userId \in RollUserIds \/ HasOwnCallsign(a)) => a.Callsign # None
        /\ a.Callsign = None => (a.userId \notin RollUserIds /\ ~HasOwnCallsign(a))

\* the summits whose pass of the loop has completed
CompletedSummits == {responses[i].k : i \in {j \in 1..Len(responses) :
                                                 responses[j].v.status # "malformed"}}

\* C10 as stated: when the run is aborted, the snapshot under construction
\* holds every summit whose processing completed, with its enriched
\* activations, those of the region in flight included.
C10_Original ==
    (pc = "aborted" /\ abortCause \in {<<"cancel">>, <<"region_detail">>}) =>
        \A c \in CompletedSummits :
            /\ HasEntry(Range(SummitEntries(output)), c)
            /\ RawAll(EntryFor(Range(SummitEntries(output)), c).activations) = ExpectedRaw(c)

\* the regions whose pass of the outer loop has completed
CompletedRegions == [i \in 1..(ri - 1) |-> regions[i].regionCode]

\* the outer loop is inside its pass for region ri (line 81 done, line 123 not)
InFlight ==
    /\ ri \in 1..Len(regions)
    /\ region_data.region.regionCode = regions[ri].regionCode

C10_Partial ==
    /\ DictKeys(output.regions) = CompletedRegions
    /\ \A i \in 1..Len(output.regions) :
          LET stored == output.regions[i].v.summits
              detail == RemoteRegionDetail(output.regions[i].k)
          IN /\ DictKeys(stored) = [j \in 1..Len(detail.summits) |-> detail.summits[j].summitCode]
             /\ \A j \in 1..Len(stored) :
                   RawAll(stored[j].v.activations) = ExpectedRaw(stored[j].k)
    /\ \A c \in CompletedSummits :
          /\ HasEntry(AttachedEntries, c)
          /\ RawAll(EntryFor(AttachedEntries, c).activations) = ExpectedRaw(c)
          /\ (InFlight /\ c[1] = regions[ri].regionCode) =>
                /\ HasEntry(Range(InFlightEntries), c)
                /\ ~HasEntry(Range(SummitEntries(output)), c)

IsPrefix(s, t) == Len(s) <= Len(t) /\ SubSeq(t, 1, Len(s)) = s

\* C10 amended: at every point of the run, an abort included, the snapshot
\* under construction holds exactly the regions whose processing completed,
\* each with all its summits and their fetched activations; the completed
\* summits of the region in flight are held in the region entry under
\* construction, which is attached to the snapshot only when its last summit
\* is done; nothing already in the snapshot is changed or removed.
C10_Amended ==
    /\ []C10_Partial
    /\ [][IsPrefix(output.regions, output'.regions)]_vars

C10_Witness ==
    /\ pc = "aborted"
    /\ abortCause = <<"cancel">>
    /\ ri = 2
    /\ si = 2
    /\ Len(output.regions) = 1
    /\ DictHas(responses, <<2, 1>>)
    /\ Len(DictItem(responses, <<2, 1>>).body) = 1
    /\ HasEntry(Range(InFlightEntries), <<2, 1>>)
    /\ ~HasEntry(Range(SummitEntries(output)), <<2, 1>>)

-----------------------------------------------------------------------------
(* Properties of the page's tables *)

SummitsColumn(rows) == [i \in 1..Len(rows) |-> rows[i].summits]

\* C1 as stated: for the selected year (any year of the snapshot), the summits
\* counts of the per-year summary add up to the yearly-totals figure of that
\* year, activations with a null Callsign included.
C1_Original ==
    apc = "rendered" =>
        \E i \in 1..Len(yearly_totals) :
            /\ yearly_totals[i].year = selected_year
            /\ yearly_totals[i].total = SumSeq(SummitsColumn(summary))

\* the distinct summits participant u activated in year y
DistinctSummits(u, y) ==
    {df[i].summitCode : i \in {j \in 1..Len(df) : df[j].userId = u /\ df[j].year = y}}

\* C2 as stated: every year of an activation date has exactly one row in the
\* winner table, and the count in that row is at least the number of distinct
\* summits every other participant (userId) activated in that year.
C2_Original ==
    apc = "rendered" =>
        \A y \in available_years(df) :
            /\ Cardinality({i \in 1..Len(winners) : winners[i].year = y}) = 1
            /\ \A i \in 1..Len(winners) :
                  winners[i].year = y =>
                      \A u \in {df[j].userId : j \in 1..Len(df)} \ {winners[i].userId} :
                          winners[i].summits >= Cardinality(DistinctSummits(u, y))

\* data with activation act put at position pos of summit code's list
InsertActivation(d, code, pos, act) ==
    LET Ins(acts) == SubSeq(acts, 1, pos - 1) \o <<act>> \o SubSeq(acts, pos, Len(acts))
    IN [d EXCEPT !.regions =
           [i \in 1..Len(d.regions) |->
               [d.regions[i] EXCEPT !.v.summits =
                   [j \in 1..Len(d.regions[i].v.summits) |->
                       IF d.regions[i].v.summits[j].k = code
                       THEN [d.regions[i].v.summits[j] EXCEPT !.v.activations = Ins(@)]
                       ELSE d.regions[i].v.summits[j]]]]]

\* the summit count of participant u in the summary of year y of frame rows
SummaryCount(rows, u, y) ==
    SumSeq(SummitsColumn(FilterEq(SummaryGroups(FilterEq(rows, "year", y)), "userId", u)))

Date2023b == <<2, 0, 2, 3, 0, 7, 1, 0>>
ExtraActivations ==
    { Enrich(<<>>, [userId |-> u, ownCallsign |-> o, activationDate |-> d]) :
        u \in Users, o \in {None, <<"M">>, <<"N", "/", "P">>},
        d \in {Date2023, Date2023b, Date2024} }

\* C3 as stated: one more activation, anywhere in the summit's list and with
\* any Callsign and date of the year, of a (userId, summit) pair that already
\* has an activation in the selected year leaves the summit count of that
\* participant in the per-year summary as it was.
C3_Original ==
    apc = "summary" =>
        \A e \in Range(SummitEntries(data)) :
            \A pos \in 1..(Len(e.activations) + 1) :
                \A act \in ExtraActivations :
                    (/\ Year(act.activationDate) = selected_year
                     /\ \E a \in Range(e.activations) :
                           a.userId = act.userId /\ Year(a.activationDate) = selected_year)
                    => SummaryCount(
                           build_activation_dataframe(
                               InsertActivation(data, e.summit.summitCode, pos, act)),
                           act.userId, selected_year)
                       = SummaryCount(df, act.userId, selected_year)

Projected(r) == [userId |-> r.userId, Callsign |-> r.Callsign,
                 activationDate |-> r.activationDate]
ProjectedAll(rows) == [i \in 1..Len(rows) |-> Projected(rows[i])]

\* the flat records of summit code, in record order
Regroup(rows, code) == FilterEq(rows, "summitCode", code)

\* position of a summit in the snapshot: region, then summit, in stored order
StoredPosition(code) ==
    CHOOSE k \in 1..Len(SummitEntries(data)) : SummitEntries(data)[k].summit.summitCode = code

\* C8: regrouping the flat records by summit code gives back, for every summit
\* of the snapshot, its activation list in its order (on userId, Callsign and
\* activationDate); there are as many flat records as activations; the records
\* are in region, then summit, then event stored order.
C8_FlattenRoundTrip ==
    apc \notin {"load"} =>
        /\ \A e \in Range(SummitEntries(data)) :
              ProjectedAll(Regroup(df, e.summit.summitCode)) = ProjectedAll(e.activations)
        /\ Len(df) = SumSeq([k \in 1..Len(SummitEntries(data)) |->
                                Len(SummitEntries(data)[k].activations)])
        /\ \A i, j \in 1..Len(df) :
              i < j => StoredPosition(df[i].summitCode) <= StoredPosition(df[j].summitCode)

C8_Witness ==
    /\ apc = "select"
    /\ Len(df) = 3
    /\ df[1].summitCode = <<1, 1>>
    /\ df[2].summitCode = <<2, 2>>
    /\ df[3].summitCode = <<2, 2>>
    /\ df[2].userId = 2 /\ df[3].userId = 1
    /\ df[2].Callsign = <<"N">> /\ df[3].Callsign = None

\* the first flat record of the selected year that belongs to a summary row
FirstSeen(row) ==
    Min({k \in 1..Len(DfYear) :
            DfYear[k].userId = row.userId /\ DfYear[k].Callsign = row.Callsign})

UserCallsign(r) == <<r.userId, r.Callsign>>

SummaryComputed == apc \in {"historical", "totals", "rendered"}

\* C9 as stated: the summary is in descending order of summit count, and rows
\* with equal counts are in the order in which their participants first appear
\* in the flat records.
C9_Original ==
    SummaryComputed =>
        \A i, j \in 1..Len(summary) :
            i < j =>
                /\ summary[i].summits >= summary[j].summits
                /\ summary[i].summits = summary[j].summits
                      => FirstSeen(summary[i]) < FirstSeen(summary[j])

\* C9 amended: the summary holds one row for each (userId, Callsign) pair of the
\* selected year whose Callsign is not null, in descending order of summit
\* count; the order of rows with equal counts is not fixed by first appearance.
C9_Amended ==
    SummaryComputed =>
        /\ \A i, j \in 1..Len(summary) : i < j => summary[i].summits >= summary[j].summits
        /\ \A i, j \in 1..Len(summary) :
              i # j => UserCallsign(summary[i]) # UserCallsign(summary[j])
        /\ {UserCallsign(summary[i]) : i \in 1..Len(summary)}
              = {UserCallsign(r) :
                    r \in {x \in Range(DropDuplicates(DfYear, <<"userId", "summitCode">>)) :
                              x.Callsign # None}}

\* a tie that a stable sort leaves in (userId, Callsign) order, against the
\* order of first appearance
C9_Witness ==
    /\ SummaryComputed
    /\ Len(summary) = 2
    /\ summary = SortValuesBy(SummaryGroups(DfYear), <<"summits">>, <<FALSE>>)
    /\ summary[1].summits = summary[2].summits
    /\ FirstSeen(summary[1]) > FirstSeen(summary[2])

====
